---- MODULE Spec2Model ----
(***************************************************************************)
(* policy-engine/src/openapi.rs: the handler `index` that serves the       *)
(* OpenAPIv3 document of the policy-engine, with its two transformations   *)
(* `add_mandatory_params` and `rewrite_paths`.                             *)
(*                                                                         *)
(* A Rust String that is concatenated or compared by prefix is a sequence  *)
(* of one-character strings; names that are only compared are TLA+         *)
(* strings.  A JSON text is its value tree: an object is a record, an      *)
(* object whose member order matters (the "paths" object) is a sequence of *)
(* <<key, value>> members, an array is a sequence.  The openapiv3 values   *)
(* are records shaped after the crate's types: ReferenceOr is tagged       *)
(* "Item"/"Reference", Parameter carries its location in `kind`.           *)
(***************************************************************************)
EXTENDS Integers, Sequences, FiniteSets, TLC

VARIABLES
    asset,             \* the text of openapiv3.json behind SPEC
    path_prefix,       \* AppState.path_prefix
    mandatory_params,  \* AppState.mandatory_params, in the HashSet's iteration order
    pc,                \* per request: the handler's position
    doc,               \* per request: the local spec_object
    resp,              \* per request: the HttpResponse returned
    log,               \* the error!/trace! records emitted so far
    rw,                \* harness of rewrite_paths (test_rewrite_paths)
    inj                \* harness of add_mandatory_params (graph_params)

vars == <<asset, path_prefix, mandatory_params, pc, doc, resp, log, rw, inj>>

(***************************************************************************)
(* Bounds                                                                  *)
(***************************************************************************)
\* number of requests to `index` in one behaviour
MaxRequests == 2
\* largest route table handed to rewrite_paths by its harness
MaxPaths == 2
\* largest number of calls of add_mandatory_params on one entry
MaxCalls == 2

Requests == 1..MaxRequests

(***************************************************************************)
(* Generic helpers                                                         *)
(***************************************************************************)
Range(s) == {s[i] : i \in 1..Len(s)}

IsInjective(s) == \A i, j \in 1..Len(s) : s[i] = s[j] => i = j

SeqsUpTo(S, n) == UNION {[1..k -> S] : k \in 0..n}

Ok(v) == [ok |-> TRUE, val |-> v]

Err(m) == [ok |-> FALSE, err |-> m]

\* str::starts_with
starts_with(s, p) == Len(p) <= Len(s) /\ SubSeq(s, 1, Len(p)) = p

\* format!("{}{}", a, b)
format2(a, b) == a \o b

Keys(members) == [i \in 1..Len(members) |-> members[i][1]]

\* IndexMap::insert: a new key is appended, a present key keeps its position
\* and takes the new value
IndexMapInsert(m, k, v) ==
    IF \E i \in 1..Len(m) : m[i][1] = k
    THEN [i \in 1..Len(m) |-> IF m[i][1] = k THEN <<k, v>> ELSE m[i]]
    ELSE Append(m, <<k, v>>)

\* Iterator::collect into an IndexMap (FromIterator: insert in iteration order)
RECURSIVE collect(_)
collect(members) ==
    IF members = <<>> THEN <<>>
    ELSE LET n == Len(members)
         IN IndexMapInsert(collect(SubSeq(members, 1, n - 1)), members[n][1], members[n][2])

\* IndexMap::get / get_mut: the position of the key, 0 when absent
IndexOf(m, k) ==
    IF \E i \in 1..Len(m) : m[i][1] = k
    THEN CHOOSE i \in 1..Len(m) : m[i][1] = k
    ELSE 0

(***************************************************************************)
(* openapiv3 values                                                        *)
(***************************************************************************)
Item(x) == [tag |-> "Item", item |-> x]

Reference(r) == [tag |-> "Reference", reference |-> r]

Locations == [query |-> "Query", header |-> "Header", path |-> "Path", cookie |-> "Cookie"]

\* Parameter::Query { parameter_data, .. } and its sibling variants
Parameter(kind, name, required, type) ==
    [kind |-> kind,
     parameter_data |-> [name |-> name, required |-> required, format |-> [Schema |-> type]]]

(***************************************************************************)
(* serde_json::from_str                                                    *)
(***************************************************************************)
\* Parameter is tagged by "in"; name and schema are required members,
\* "required" defaults to false
from_str_Parameter(j) ==
    IF "in" \notin DOMAIN j \/ "name" \notin DOMAIN j \/ "schema" \notin DOMAIN j
    THEN Err("missing field")
    ELSE IF j.in \notin DOMAIN Locations
    THEN Err("unknown variant")
    ELSE Ok(Parameter(Locations[j.in], j.name,
                      IF "required" \in DOMAIN j THEN j.required ELSE FALSE,
                      j.schema.type))

\* ReferenceOr<T> is untagged: an object with "$ref" is a Reference
from_str_ReferenceOrParameter(j) ==
    IF "ref" \in DOMAIN j THEN Ok(Reference(j.ref))
    ELSE LET p == from_str_Parameter(j)
         IN IF p.ok THEN Ok(Item(p.val)) ELSE p

from_str_ReferenceOrPathItem(j) ==
    IF "ref" \in DOMAIN j THEN Ok(Reference(j.ref))
    ELSE LET ps == IF "parameters" \in DOMAIN j THEN j.parameters ELSE <<>>
             rs == [i \in 1..Len(ps) |-> from_str_ReferenceOrParameter(ps[i])]
         IN IF \E i \in 1..Len(rs) : ~rs[i].ok
            THEN Err("invalid parameter")
            ELSE Ok(Item([summary |-> IF "summary" \in DOMAIN j THEN j.summary ELSE "",
                          parameters |-> [i \in 1..Len(rs) |-> rs[i].val]]))

IsExtensionKey(k) == starts_with(k, <<"x", "-">>)

\* OpenAPI: "openapi" and "paths" are required; the members of "paths" whose key
\* starts with "x-" are its extensions, the others its routes
from_str_OpenAPI(j) ==
    IF "openapi" \notin DOMAIN j \/ "paths" \notin DOMAIN j
    THEN Err("missing field")
    ELSE LET routes == SelectSeq(j.paths, LAMBDA m : ~IsExtensionKey(m[1]))
             exts == SelectSeq(j.paths, LAMBDA m : IsExtensionKey(m[1]))
             rs == [i \in 1..Len(routes) |-> from_str_ReferenceOrPathItem(routes[i][2])]
         IN IF \E i \in 1..Len(rs) : ~rs[i].ok
            THEN Err("invalid path item")
            ELSE Ok([openapi |-> j.openapi,
                     paths |-> [paths |-> collect([i \in 1..Len(routes) |->
                                                      <<routes[i][1], rs[i].val>>]),
                                extensions |-> collect(exts)]])

(***************************************************************************)
(* serde_json::to_string                                                   *)
(***************************************************************************)
LocationTag(kind) == CHOOSE t \in DOMAIN Locations : Locations[t] = kind

to_string_Parameter(p) ==
    [in |-> LocationTag(p.kind),
     name |-> p.parameter_data.name,
     required |-> p.parameter_data.required,
     schema |-> [type |-> p.parameter_data.format.Schema]]

to_string_ReferenceOrParameter(x) ==
    IF x.tag = "Reference" THEN [ref |-> x.reference] ELSE to_string_Parameter(x.item)

to_string_ReferenceOrPathItem(x) ==
    IF x.tag = "Reference" THEN [ref |-> x.reference]
    ELSE [summary |-> x.item.summary,
          parameters |-> [i \in 1..Len(x.item.parameters) |->
                             to_string_ReferenceOrParameter(x.item.parameters[i])]]

\* every map key of an OpenAPI value is a string, so the serializer has no
\* failing case: the result is always Ok
to_string_OpenAPI(o) ==
    Ok([openapi |-> o.openapi,
        paths |-> [i \in 1..Len(o.paths.paths) |->
                      <<o.paths.paths[i][1], to_string_ReferenceOrPathItem(o.paths.paths[i][2])>>]
                  \o o.paths.extensions])

(***************************************************************************)
(* Logging (the `log` crate's error! and trace!)                           *)
(***************************************************************************)
error(m) == [level |-> "error", msg |-> <<m>>]

trace(m) == [level |-> "trace", msg |-> m]

(***************************************************************************)
(* rewrite_paths                                                           *)
(***************************************************************************)
\* mutant of rewrite_member: the new key is the prefix alone
rewrite_member_prefix_only(member, prefix) == <<prefix, member[2]>>

\* the closure of the map: (path, path_item) -> (new_path, path_item)
rewrite_member(member, prefix) == <<format2(prefix, member[1]), member[2]>>

\* mutant of rewrite_paths: the clone is rewritten as well, so the prefix is
\* put in front twice
rewrite_paths_twice(paths, prefix) ==
    [paths EXCEPT !.paths =
        collect([i \in 1..Len(paths.paths) |->
                    rewrite_member(rewrite_member(paths.paths[i], prefix), prefix)])]

\* new_paths = paths.clone(); new_paths.paths = paths.into_iter().map(..).collect()
rewrite_paths(paths, prefix) ==
    [paths EXCEPT !.paths =
        collect([i \in 1..Len(paths.paths) |-> rewrite_member(paths.paths[i], prefix)])]

\* the trace! records of one call, one per route, in iteration order
rewrite_paths_trace(paths, prefix) ==
    [i \in 1..Len(paths.paths) |->
        trace(<<"Rewrote path", paths.paths[i][1], format2(prefix, paths.paths[i][1])>>)]

(***************************************************************************)
(* add_mandatory_params                                                    *)
(***************************************************************************)
\* mutant of PARAM_TEMPLATE: the "schema" member is missing
PARAM_TEMPLATE_no_schema == [in |-> "query", name |-> "TEMPLATE", required |-> TRUE]

PARAM_TEMPLATE ==
    [in |-> "query", name |-> "TEMPLATE", required |-> TRUE, schema |-> [type |-> "string"]]

\* mutant of push_param: the clone keeps the template's name
push_param_unnamed(acc, template, key) ==
    IF template.kind = "Query"
    THEN [acc EXCEPT !.item.parameters = Append(@, Item(template))]
    ELSE [acc EXCEPT !.log = Append(@, error("non-query parameters not allowed"))]

\* mutant of push_param: a name the list already holds as a Query parameter is
\* not pushed again
push_param_dedup(acc, template, key) ==
    IF \E i \in 1..Len(acc.item.parameters) :
          /\ acc.item.parameters[i].tag = "Item"
          /\ acc.item.parameters[i].item.kind = "Query"
          /\ acc.item.parameters[i].item.parameter_data.name = key
    THEN acc
    ELSE [acc EXCEPT !.item.parameters =
              Append(@, Item([template EXCEPT !.parameter_data.name = key]))]

\* one turn of `for key in reqs`: a Query template is cloned, renamed and pushed;
\* any other variant is logged and skipped
push_param(acc, template, key) ==
    IF template.kind = "Query"
    THEN [acc EXCEPT !.item.parameters =
              Append(@, Item([template EXCEPT !.parameter_data.name = key]))]
    ELSE [acc EXCEPT !.log = Append(@, error("non-query parameters not allowed"))]

RECURSIVE push_params(_, _, _)
push_params(acc, template, reqs) ==
    IF reqs = <<>> THEN acc
    ELSE push_params(push_param(acc, template, Head(reqs)), template, Tail(reqs))

\* mutant of add_mandatory_params: a Reference entry is taken for unreachable
add_mandatory_params_strict(path, reqs) ==
    IF path.tag = "Item"
    THEN LET out == push_params([item |-> path.item, log |-> <<>>],
                                from_str_Parameter(PARAM_TEMPLATE).val, reqs)
         IN [path |-> Item(out.item), log |-> out.log, panic |-> FALSE]
    ELSE [path |-> path, log |-> <<>>, panic |-> TRUE]

\* the result: the entry after the call, the records logged, and whether the
\* expect() on the hardcoded template panicked
add_mandatory_params(path, reqs) ==
    IF path.tag = "Item"
    THEN LET template == from_str_Parameter(PARAM_TEMPLATE)
         IN IF ~template.ok
            THEN [path |-> path, log |-> <<>>, panic |-> TRUE]
            ELSE LET out == push_params([item |-> path.item, log |-> <<>>], template.val, reqs)
                 IN [path |-> Item(out.item), log |-> out.log, panic |-> FALSE]
    ELSE [path |-> path,
          log |-> <<error("reference manipulation for paths not allowed")>>,
          panic |-> FALSE]

(***************************************************************************)
(* index, step by step                                                     *)
(***************************************************************************)
\* the key of the route that takes the mandatory parameters: "/graph"
GRAPH == <<"/", "g", "r", "a", "p", "h">>

InternalServerError(m) == [status |-> 500, body |-> [message |-> m]]

OkResponse(text) == [status |-> 200, body |-> text]

NoResponse == [status |-> 0, body |-> [message |-> ""]]

\* mutant of index_deserialize: the document another request is working on
\* is reused when there is one
index_deserialize_shared(text) ==
    IF \E q \in Requests : pc[q] \in {"rewrite", "serialize"}
    THEN Ok(doc[CHOOSE q \in Requests : pc[q] \in {"rewrite", "serialize"}])
    ELSE from_str_OpenAPI(text)

\* mutant of index_deserialize: a template that does not parse gives the
\* empty document
index_deserialize_or_default(text) ==
    LET r == from_str_OpenAPI(text)
    IN IF r.ok THEN r
       ELSE Ok([openapi |-> "", paths |-> [paths |-> <<>>, extensions |-> <<>>]])

\* serde_json::from_str(SPEC).context(..)
index_deserialize(text) ==
    LET r == from_str_OpenAPI(text)
    IN IF r.ok THEN r ELSE Err("Could not deserialize to OpenAPI object")

\* mutant of index_inject: the route is looked up under its prefixed key,
\* before the keys are rewritten
index_inject_prefixed(spec_object, reqs) ==
    LET i == IndexOf(spec_object.paths.paths, format2(path_prefix, GRAPH))
    IN IF i = 0
       THEN [doc |-> spec_object, log |-> <<>>, panic |-> FALSE]
       ELSE LET out == add_mandatory_params(spec_object.paths.paths[i][2], reqs)
            IN [doc |-> [spec_object EXCEPT !.paths.paths[i] = <<spec_object.paths.paths[i][1], out.path>>],
                log |-> out.log,
                panic |-> out.panic]

\* mutant of index_inject: an absent route is created (entry().or_insert_with)
index_inject_or_insert(spec_object, reqs) ==
    LET present == IndexMapInsert(spec_object.paths.paths, GRAPH,
                                  Item([summary |-> "", parameters |-> <<>>]))
        paths == IF IndexOf(spec_object.paths.paths, GRAPH) = 0
                 THEN present ELSE spec_object.paths.paths
        i == IndexOf(paths, GRAPH)
        out == add_mandatory_params(paths[i][2], reqs)
    IN [doc |-> [spec_object EXCEPT !.paths.paths = [paths EXCEPT ![i] = <<GRAPH, out.path>>]],
        log |-> out.log,
        panic |-> out.panic]

\* if let Some(path) = spec_object.paths.paths.get_mut("/graph") { add_mandatory_params(..) }
index_inject(spec_object, reqs) ==
    LET i == IndexOf(spec_object.paths.paths, GRAPH)
    IN IF i = 0
       THEN [doc |-> spec_object, log |-> <<>>, panic |-> FALSE]
       ELSE LET out == add_mandatory_params(spec_object.paths.paths[i][2], reqs)
            IN [doc |-> [spec_object EXCEPT !.paths.paths[i] = <<GRAPH, out.path>>],
                log |-> out.log,
                panic |-> out.panic]

\* spec_object.paths = rewrite_paths(spec_object.paths, path_prefix)
index_rewrite(spec_object, prefix) ==
    [spec_object EXCEPT !.paths = rewrite_paths(spec_object.paths, prefix)]

\* serde_json::to_string(&spec_object).context(..).map(..).unwrap_or_else(..)
index_respond(spec_object) ==
    LET r == to_string_OpenAPI(spec_object)
    IN IF r.ok
       THEN [resp |-> OkResponse(r.val), log |-> <<>>]
       ELSE [resp |-> InternalServerError("Could not serialize OpenAPI object"),
             log |-> <<error("Could not serialize OpenAPI object")>>]

NoDoc == [openapi |-> "", paths |-> [paths |-> <<>>, extensions |-> <<>>]]

\* the request arrives: the future of `index` is created, not yet polled
Arrive(r) ==
    /\ pc[r] = "idle"
    /\ pc' = [pc EXCEPT ![r] = "deserialize"]
    /\ UNCHANGED <<asset, path_prefix, mandatory_params, doc, resp, log, rw, inj>>

\* the future is dropped before its only poll (`index` has no await point, so
\* there is no later place to cancel it)
Drop(r) ==
    /\ pc[r] = "deserialize"
    /\ pc' = [pc EXCEPT ![r] = "dropped"]
    /\ UNCHANGED <<asset, path_prefix, mandatory_params, doc, resp, log, rw, inj>>

Deserialize(r) ==
    /\ pc[r] = "deserialize"
    /\ LET o == index_deserialize(asset)
       IN IF o.ok
          THEN /\ doc' = [doc EXCEPT ![r] = o.val]
               /\ pc' = [pc EXCEPT ![r] = "inject"]
               /\ UNCHANGED <<resp, log>>
          ELSE /\ log' = Append(log, error(o.err))
               /\ resp' = [resp EXCEPT ![r] = InternalServerError(o.err)]
               /\ pc' = [pc EXCEPT ![r] = "done"]
               /\ UNCHANGED doc
    /\ UNCHANGED <<asset, path_prefix, mandatory_params, rw, inj>>

InjectParams(r) ==
    /\ pc[r] = "inject"
    /\ LET out == index_inject(doc[r], mandatory_params)
       IN /\ doc' = [doc EXCEPT ![r] = out.doc]
          /\ log' = log \o out.log
          /\ pc' = [pc EXCEPT ![r] = IF out.panic THEN "panicked" ELSE "rewrite"]
    /\ UNCHANGED <<asset, path_prefix, mandatory_params, resp, rw, inj>>

RewritePaths(r) ==
    /\ pc[r] = "rewrite"
    /\ doc' = [doc EXCEPT ![r] = index_rewrite(doc[r], path_prefix)]
    /\ log' = log \o rewrite_paths_trace(doc[r].paths, path_prefix)
    /\ pc' = [pc EXCEPT ![r] = "serialize"]
    /\ UNCHANGED <<asset, path_prefix, mandatory_params, resp, rw, inj>>

Serialize(r) ==
    /\ pc[r] = "serialize"
    /\ LET out == index_respond(doc[r])
       IN /\ resp' = [resp EXCEPT ![r] = out.resp]
          /\ log' = log \o out.log
    /\ pc' = [pc EXCEPT ![r] = "done"]
    /\ UNCHANGED <<asset, path_prefix, mandatory_params, doc, rw, inj>>

(***************************************************************************)
(* The deployment: template asset and configuration                        *)
(***************************************************************************)
ROOT == <<"/">>

XTAG == <<"x", "-", "t">>

Names == {"MARKER1", "MARKER2"}

JsonParam(in, name, required) ==
    [in |-> in, name |-> name, required |-> required, schema |-> [type |-> "string"]]

\* the template as shipped: "/graph" is a concrete item that carries no required
\* query parameter of its own (graph_params unwraps the route,
\* graph_params_integration finds exactly the mandatory names on it)
SPEC ==
    [openapi |-> "3.0.2",
     paths |-> << <<GRAPH, [summary |-> "graph",
                            parameters |-> <<JsonParam("header", "Accept", TRUE),
                                             JsonParam("query", "arch", FALSE)>>]>>,
                  <<ROOT, [ref |-> "#/components/pathItems/root"]>>,
                  <<XTAG, [note |-> "internal"]>> >>]

\* a template without the "/graph" route
SpecNoGraph ==
    [openapi |-> "3.0.2",
     paths |-> << <<ROOT, [summary |-> "root",
                           parameters |-> <<JsonParam("query", "MARKER1", TRUE)>>]>> >>]

\* a template whose "/graph" route is a reference
SpecGraphRef ==
    [openapi |-> "3.0.2",
     paths |-> << <<ROOT, [summary |-> "root", parameters |-> <<>>]>>,
                  <<GRAPH, [ref |-> "#/components/pathItems/graph"]>> >>]

\* a template whose "/graph" item already requires the query parameter MARKER1
SpecGraphMarked ==
    [openapi |-> "3.0.2",
     paths |-> << <<GRAPH, [summary |-> "graph",
                            parameters |-> <<JsonParam("query", "MARKER1", TRUE)>>]>> >>]

\* a corrupt asset: the "paths" member is missing
SpecCorrupt == [openapi |-> "3.0.2"]

Assets == {SPEC, SpecNoGraph, SpecGraphRef, SpecGraphMarked, SpecCorrupt}

Prefixes == {<<>>, <<"/", "a">>, <<"/", "v", "1">>, <<"t">>}

\* a HashSet<String> over Names, as the sequence its iterator yields
HashSets == {s \in SeqsUpTo(Names, Cardinality(Names)) : IsInjective(s)}

IdleHandlers ==
    /\ pc = [r \in Requests |-> "idle"]
    /\ doc = [r \in Requests |-> NoDoc]
    /\ resp = [r \in Requests |-> NoResponse]
    /\ log = <<>>

NoRewriteHarness == [phase |-> "off", paths_before |-> NoDoc.paths, prefix |-> <<>>,
                     paths_after |-> NoDoc.paths]

NoInjectHarness == [calls |-> 0, before |-> Reference(""), path |-> Reference(""),
                    reqs |-> <<>>, log |-> <<>>, panic |-> FALSE]

Init ==
    /\ asset \in Assets
    /\ path_prefix \in Prefixes
    /\ mandatory_params \in HashSets
    /\ IdleHandlers
    /\ rw = NoRewriteHarness
    /\ inj = NoInjectHarness

Next ==
    \E r \in Requests :
        \/ Arrive(r)
        \/ Drop(r)
        \/ Deserialize(r)
        \/ InjectParams(r)
        \/ RewritePaths(r)
        \/ Serialize(r)

Spec == Init /\ [][Next]_vars

(***************************************************************************)
(* rewrite_paths on its own (test_rewrite_paths)                           *)
(***************************************************************************)
RouteKeys == {GRAPH, ROOT, <<"/", "a">>, <<"/", "a", "/", "a">>}

QueryMarker1 == Item(Parameter("Query", "MARKER1", TRUE, "string"))

RouteEntries ==
    {Reference("#/components/pathItems/root"),
     Item([summary |-> "", parameters |-> <<>>]),
     Item([summary |-> "graph", parameters |-> <<QueryMarker1>>])}

\* the route tables of at most MaxPaths routes: an IndexMap holds a key once
RouteTables ==
    {m \in SeqsUpTo(RouteKeys \X RouteEntries, MaxPaths) : IsInjective(Keys(m))}

InitRewrite ==
    /\ asset = SPEC
    /\ path_prefix = <<>>
    /\ mandatory_params = <<>>
    /\ IdleHandlers
    /\ inj = NoInjectHarness
    /\ \E m \in RouteTables, e \in {<<>>, << <<XTAG, [note |-> "internal"]>> >>},
          p \in Prefixes :
          rw = [phase |-> "before",
                paths_before |-> [paths |-> m, extensions |-> e],
                prefix |-> p,
                paths_after |-> NoDoc.paths]

\* let paths_after = rewrite_paths(paths_before.clone(), prefix)
TestRewritePaths ==
    /\ rw.phase = "before"
    /\ rw' = [rw EXCEPT !.phase = "after",
                        !.paths_after = rewrite_paths(rw.paths_before, rw.prefix)]
    /\ log' = log \o rewrite_paths_trace(rw.paths_before, rw.prefix)
    /\ UNCHANGED <<asset, path_prefix, mandatory_params, pc, doc, resp, inj>>

NextRewrite == TestRewritePaths

SpecRewrite == InitRewrite /\ [][NextRewrite]_vars

(***************************************************************************)
(* add_mandatory_params on its own (graph_params)                          *)
(***************************************************************************)
\* largest parameter list of an entry before the first call
MaxParams == 2

PriorParams ==
    {QueryMarker1,
     Item(Parameter("Query", "MARKER1", FALSE, "string")),
     Item(Parameter("Header", "MARKER2", TRUE, "string")),
     Reference("#/components/parameters/arch")}

PathEntries ==
    {Reference("#/components/pathItems/graph")}
    \cup {Item([summary |-> "graph", parameters |-> ps]) : ps \in SeqsUpTo(PriorParams, MaxParams)}

InitInject ==
    /\ asset = SPEC
    /\ path_prefix = <<>>
    /\ mandatory_params = <<>>
    /\ IdleHandlers
    /\ rw = NoRewriteHarness
    /\ \E e \in PathEntries, s \in HashSets :
          inj = [calls |-> 0, before |-> e, path |-> e, reqs |-> s,
                 log |-> <<>>, panic |-> FALSE]

\* add_mandatory_params(graph_path, &params), on the same &mut entry each time
CallAddMandatoryParams ==
    /\ inj.calls < MaxCalls
    /\ ~inj.panic
    /\ LET out == add_mandatory_params(inj.path, inj.reqs)
       IN inj' = [inj EXCEPT !.calls = @ + 1,
                             !.path = out.path,
                             !.log = @ \o out.log,
                             !.panic = out.panic]
    /\ UNCHANGED <<asset, path_prefix, mandatory_params, pc, doc, resp, log, rw>>

NextInject == CallAddMandatoryParams

SpecInject == InitInject /\ [][NextInject]_vars

(***************************************************************************)
(* Properties of rewrite_paths                                             *)
(***************************************************************************)
KeySet(members) == {members[i][1] : i \in 1..Len(members)}

\* C1: for every prefix p and route table T, rewrite_paths(T, p) has the key
\* set { p + k : k in keys(T) } and as many keys as T (nothing merged, nothing
\* dropped), and the table the caller holds is the same after the call.
C1_RewriteKeySet ==
    [][rw'.phase = "after" =>
          /\ KeySet(rw'.paths_after.paths)
                = {rw.prefix \o k : k \in KeySet(rw.paths_before.paths)}
          /\ Cardinality(KeySet(rw'.paths_after.paths))
                = Cardinality(KeySet(rw.paths_before.paths))
          /\ Len(rw'.paths_after.paths) = Len(rw.paths_before.paths)
          /\ rw'.paths_before = rw.paths_before]_vars

C1_Witness ==
    /\ rw.phase = "after"
    /\ rw.prefix = <<"/", "a">>
    /\ KeySet(rw.paths_before.paths) = {<<"/", "a">>, <<"/", "a", "/", "a">>}
    /\ KeySet(rw.paths_after.paths)
          = {<<"/", "a", "/", "a">>, <<"/", "a", "/", "a", "/", "a">>}

\* C10: rewrite_paths carries the routes over position by position: the i-th
\* output key is prefix + the i-th input key, the i-th entry is the i-th input
\* entry; with a non-empty prefix every output key differs from its input key
\* and starts with the prefix; the prefix is put in front once, not twice.
C10_RewritePositional ==
    rw.phase = "after" =>
        /\ Len(rw.paths_after.paths) = Len(rw.paths_before.paths)
        /\ rw.paths_after.extensions = rw.paths_before.extensions
        /\ \A i \in 1..Len(rw.paths_before.paths) :
              LET before == rw.paths_before.paths[i]
                  after == rw.paths_after.paths[i]
              IN /\ after[1] = rw.prefix \o before[1]
                 /\ after[2] = before[2]
                 /\ Len(after[1]) = Len(rw.prefix) + Len(before[1])
                 /\ rw.prefix # <<>> =>
                       /\ after[1] # before[1]
                       /\ starts_with(after[1], rw.prefix)
                       /\ after[1] # rw.prefix \o rw.prefix \o before[1]

C10_Witness ==
    /\ rw.phase = "after"
    /\ rw.prefix = <<"/", "v", "1">>
    /\ Len(rw.paths_before.paths) = 2
    /\ rw.paths_after.paths[1][1] = <<"/", "v", "1", "/", "g", "r", "a", "p", "h">>
    /\ rw.paths_after.paths[2][2].tag = "Reference"

(***************************************************************************)
(* Properties of add_mandatory_params                                      *)
(***************************************************************************)
IsQuery(param, name) ==
    /\ param.tag = "Item"
    /\ param.item.kind = "Query"
    /\ param.item.parameter_data.name = name

IsRequiredStringQuery(param, name) ==
    /\ IsQuery(param, name)
    /\ param.item.parameter_data.required
    /\ param.item.parameter_data.format = [Schema |-> "string"]

QueryCount(params, name) ==
    Cardinality({i \in 1..Len(params) : IsQuery(params[i], name)})

RequiredStringQueryCount(params, name) ==
    Cardinality({i \in 1..Len(params) : IsRequiredStringQuery(params[i], name)})

\* C2, as claimed: after one call on a concrete item with the names S, the
\* parameter list holds exactly one required string Query parameter per name
\* of S, and the parameters it held before are still there, unchanged.
C2_ExactlyOnePerName ==
    (inj.calls = 1 /\ inj.before.tag = "Item") =>
        /\ inj.path.tag = "Item"
        /\ SubSeq(inj.path.item.parameters, 1, Len(inj.before.item.parameters))
              = inj.before.item.parameters
        /\ \A n \in Range(inj.reqs) :
              RequiredStringQueryCount(inj.path.item.parameters, n) = 1

\* C2, amended: after one call on a concrete item with the names S, the
\* parameter list is the list held before, unchanged, followed by one new
\* required string Query parameter per name of S; so each name of S has one
\* such parameter more than before the call.
C2_OneMorePerName ==
    (inj.calls = 1 /\ inj.before.tag = "Item") =>
        /\ inj.path.tag = "Item"
        /\ inj.path.item.summary = inj.before.item.summary
        /\ LET old == inj.before.item.parameters
               new == inj.path.item.parameters
           IN /\ Len(new) = Len(old) + Len(inj.reqs)
              /\ SubSeq(new, 1, Len(old)) = old
              /\ \A i \in (Len(old) + 1)..Len(new) :
                    \E n \in Range(inj.reqs) : IsRequiredStringQuery(new[i], n)
              /\ \A n \in Range(inj.reqs) :
                    RequiredStringQueryCount(new, n) = RequiredStringQueryCount(old, n) + 1

C2_Witness ==
    /\ inj.calls = 1
    /\ inj.before.tag = "Item"
    /\ Len(inj.before.item.parameters) = 2
    /\ Range(inj.reqs) = {"MARKER1", "MARKER2"}
    /\ RequiredStringQueryCount(inj.before.item.parameters, "MARKER1") = 1
    /\ RequiredStringQueryCount(inj.path.item.parameters, "MARKER1") = 2
    /\ RequiredStringQueryCount(inj.path.item.parameters, "MARKER2") = 1

\* C5, as claimed: two calls on the same entry with the same S leave exactly
\* two Query parameters per name of S in the list.
C5_ExactlyTwoPerName ==
    (inj.calls = 2 /\ inj.before.tag = "Item") =>
        \A n \in Range(inj.reqs) : QueryCount(inj.path.item.parameters, n) = 2

\* C5, amended: two calls on the same entry with the same S add two Query
\* parameters per name of S to the list (no deduplication): each name of S has
\* two more than before the first call, exactly two when it had none.
C5_TwoMorePerName ==
    (inj.calls = 2 /\ inj.before.tag = "Item") =>
        LET old == inj.before.item.parameters
            new == inj.path.item.parameters
        IN /\ Len(new) = Len(old) + 2 * Len(inj.reqs)
           /\ SubSeq(new, 1, Len(old)) = old
           /\ \A n \in Range(inj.reqs) : QueryCount(new, n) = QueryCount(old, n) + 2

C5_Witness ==
    /\ inj.calls = 2
    /\ inj.before.tag = "Item"
    /\ inj.before.item.parameters = <<>>
    /\ inj.reqs = <<"MARKER2", "MARKER1">>
    /\ QueryCount(inj.path.item.parameters, "MARKER1") = 2
    /\ QueryCount(inj.path.item.parameters, "MARKER2") = 2

(***************************************************************************)
(* Properties of index                                                     *)
(***************************************************************************)
\* the document one request derives from the template when nothing else runs,
\* after each step
Parsed == index_deserialize(asset)

Injected == index_inject(Parsed.val, mandatory_params).doc

Rewritten == index_rewrite(Injected, path_prefix)

IsolatedResponse ==
    IF Parsed.ok THEN index_respond(Rewritten).resp ELSE InternalServerError(Parsed.err)

\* the template as it would be served with no transformation applied
Untransformed == to_string_OpenAPI(Parsed.val).val

Position(members, k) == CHOOSE i \in 1..Len(members) : members[i][1] = k

RequiredQueryNames(params) ==
    {params[i].name : i \in {j \in 1..Len(params) :
                                /\ "in" \in DOMAIN params[j]
                                /\ params[j].in = "query"
                                /\ params[j].required}}

Answered(r) == pc[r] = "done" /\ resp[r].status = 200

\* C3: with the shipped template, for any path_prefix and mandatory_params, a
\* successful response holds the key path_prefix + "/graph"; the names of the
\* required Query parameters of that route are exactly mandatory_params; every
\* other route of the template is there under its prefixed key with its entry
\* as in the template, and no further route is there.
C3_EndToEnd ==
    \A r \in Requests :
        (asset = SPEC /\ Answered(r)) =>
            LET body == resp[r].body.paths
                key == path_prefix \o GRAPH
            IN /\ key \in KeySet(body)
               /\ RequiredQueryNames(body[Position(body, key)][2].parameters)
                     = Range(mandatory_params)
               /\ Len(body) = Len(Untransformed.paths)
               /\ \A i \in 1..Len(Untransformed.paths) :
                     LET m == Untransformed.paths[i]
                     IN IF IsExtensionKey(m[1]) THEN m \in Range(body)
                        ELSE IF m[1] = GRAPH THEN TRUE
                        ELSE <<path_prefix \o m[1], m[2]>> \in Range(body)

C3_Witness ==
    \E r \in Requests :
        /\ asset = SPEC
        /\ Answered(r)
        /\ path_prefix = <<"/", "v", "1">>
        /\ Range(mandatory_params) = {"MARKER1", "MARKER2"}
        /\ <<"/", "v", "1", "/", "g", "r", "a", "p", "h">> \in KeySet(resp[r].body.paths)
        /\ <<"/", "v", "1", "/">> \in KeySet(resp[r].body.paths)

\* C4: under every interleaving of requests (concurrent, one after the other,
\* dropped), no step changes the template or the configuration; every request
\* holds the document an isolated request would hold at that step, and every
\* response is the response of an isolated request.
C4_Isolation ==
    /\ [][/\ asset' = asset
          /\ path_prefix' = path_prefix
          /\ mandatory_params' = mandatory_params]_vars
    /\ [](\A r \in Requests :
             /\ pc[r] \in {"idle", "deserialize", "dropped"} =>
                   doc[r] = NoDoc /\ resp[r] = NoResponse
             /\ pc[r] = "inject" => doc[r] = Parsed.val
             /\ pc[r] = "rewrite" => doc[r] = Injected
             /\ pc[r] = "serialize" => doc[r] = Rewritten
             /\ pc[r] = "done" => resp[r] = IsolatedResponse)

C4_Witness ==
    /\ asset = SPEC
    /\ path_prefix # <<>>
    /\ mandatory_params # <<>>
    /\ Answered(1)
    /\ pc[2] = "rewrite"
    /\ resp[1] = IsolatedResponse

GraphEntry == Parsed.val.paths.paths[IndexOf(Parsed.val.paths.paths, GRAPH)][2]

Passed(r) == pc[r] \in {"rewrite", "serialize", "done"}

ErrorsLogged(m) == Cardinality({i \in 1..Len(log) : log[i] = error(m)})

\* C6: when the entry at "/graph" is a Reference, the injection leaves the
\* entry and the rest of the document as they were, logs one error for the
\* call, and returns: the request goes on and is answered with success.
C6_ReferenceTolerated ==
    (Parsed.ok /\ IndexOf(Parsed.val.paths.paths, GRAPH) # 0 /\ GraphEntry.tag = "Reference") =>
        /\ \A r \in Requests :
              /\ pc[r] # "panicked"
              /\ pc[r] = "rewrite" => doc[r] = Parsed.val
              /\ pc[r] = "done" =>
                    /\ resp[r].status = 200
                    /\ resp[r].body.paths[Position(resp[r].body.paths, path_prefix \o GRAPH)][2]
                          = Untransformed.paths[Position(Untransformed.paths, GRAPH)][2]
        /\ ErrorsLogged("reference manipulation for paths not allowed")
              = Cardinality({r \in Requests : Passed(r)})

C6_Witness ==
    /\ asset = SpecGraphRef
    /\ Answered(1)
    /\ pc[2] = "rewrite"
    /\ ErrorsLogged("reference manipulation for paths not allowed") = 2

\* C7: when the route table has no "/graph" key, the injection step changes
\* neither the key set nor any entry and logs no error; the request goes on to
\* the rewrite step and is answered with success.
C7_AbsentRouteTolerated ==
    (Parsed.ok /\ IndexOf(Parsed.val.paths.paths, GRAPH) = 0) =>
        /\ \A i \in 1..Len(log) : log[i].level # "error"
        /\ \A r \in Requests :
              /\ pc[r] # "panicked"
              /\ pc[r] = "rewrite" => doc[r] = Parsed.val
              /\ pc[r] = "done" =>
                    /\ resp[r].status = 200
                    /\ Len(resp[r].body.paths) = Len(Untransformed.paths)

C7_Witness ==
    /\ asset = SpecNoGraph
    /\ mandatory_params # <<>>
    /\ pc[1] = "rewrite"
    /\ Answered(2)

\* C8: a request ends with status 500 and a diagnostic message exactly when
\* deserializing the template or serializing the document fails; otherwise it
\* ends with status 200 and the serialized document, also when the injection
\* met a Reference entry.
C8_StatusPolicy ==
    \A r \in Requests :
        pc[r] = "done" =>
            LET out == to_string_OpenAPI(doc[r])
            IN /\ resp[r].status \in {200, 500}
               /\ resp[r].status = 500 <=> (~from_str_OpenAPI(asset).ok \/ ~out.ok)
               /\ resp[r].status = 500 =>
                     resp[r].body \in {[message |-> "Could not deserialize to OpenAPI object"],
                                       [message |-> "Could not serialize OpenAPI object"]}
               /\ resp[r].status = 200 => resp[r].body = out.val

C8_Witness ==
    /\ asset = SpecCorrupt
    /\ pc[1] = "done"
    /\ resp[1] = InternalServerError("Could not deserialize to OpenAPI object")
    /\ log # <<>>

====
